---- MODULE Spec2Model ----
(***************************************************************************)
(* Model of package dyngo (operation tree, type registry, event bubbling). *)
(*                                                                         *)
(* Every exported function or method is one atomic action.  A call that    *)
(* panics is recorded in lastCall.panicked together with the effects of    *)
(* the deferred calls that ran while unwinding; the caller is assumed to   *)
(* recover, so the program goes on.  Listener callbacks are opaque: an     *)
(* invocation is recorded in the log `calls` and changes nothing else.     *)
(* A payload (args, results, data) is represented by its dynamic type,     *)
(* which is all that the package inspects.                                 *)
(*                                                                         *)
(* SpecThreads runs StartOperation, EmitData and Finish step by step on    *)
(* several threads, with the read/write mutex of every operation, on a     *)
(* tree built by atomic calls made before the threads start.  There a      *)
(* start listener may have a body that registers listeners on the          *)
(* operation it is called with.                                            *)
(*                                                                         *)
(* SpecApi applies FromSecurityEvents of package api (a pure function) to  *)
(* every input within the bounds.                                          *)
(***************************************************************************)
EXTENDS Integers, Sequences, FiniteSets, TLC

\* ---------------------------------------------------------------- bounds
MaxOps == 2          \* operations created by StartOperation (Root excluded)
MaxListeners == 2    \* listener entries ever added by Register
MaxThreads == 2      \* threads that run a call step by step
MaxEvents == 2       \* security events given to FromSecurityEvents
MaxAttacks == 2      \* attacks of one security event
MaxMatches == 2      \* matches in the metadata of one attack
MaxFilters == 2      \* filters of one match

\* ------------------------------------------------------- value universes
Types == {"T1", "T2"}      \* reflect.Type values of non-nil payloads
NilType == "nil"           \* reflect.TypeOf(nil), also the zero reflect.Type
InvalidKey == "invalid"    \* a key that validateEventListenerKey rejects
Kinds == {"start", "data", "finish"}
Root == 0                  \* var root = newOperation()
NoOp == -1                 \* the nil *Operation
NoId == 0                  \* id given out when nothing was added
OpIds == 0 .. (MaxOps + 1)
Threads == 1 .. MaxThreads
NoThread == 0              \* no thread holds the mutex for writing

VARIABLES
    ops,                   \* the operations allocated so far
    parent,                \* Operation.parent
    expectedResType,       \* Operation.expectedResType
    disabled,              \* eventManager.disabled
    onStart,               \* eventManager.onStart
    onData,                \* eventManager.onData
    onFinish,              \* eventManager.onFinish
    operationRegister,     \* argument type -> result type
    operationResRegister,  \* set of registered result types
    nextId,                \* next listener id
    handles,               \* UnregisterFunc values the callers hold
    lastCall,              \* the API call that produced this state
    calls,                 \* listener invocations made by lastCall, in order
    pc,                    \* per thread: the call in progress and where it is
    mu,                    \* eventManager.mu of every operation
    attachers,             \* start listeners whose body registers on the new operation
    securityEvents,        \* the argument of FromSecurityEvents
    batch                  \* the EventBatch it returned

\* The state of the threads that run calls step by step, and of package api.
threadVars == <<pc, mu, attachers>>
apiVars == <<securityEvents, batch>>

vars == <<ops, parent, expectedResType, disabled, onStart, onData, onFinish,
          operationRegister, operationResRegister, nextId, handles,
          lastCall, calls, threadVars, apiVars>>

\* ------------------------------------------------------------- helpers
EmptyRegister == [t \in Types |-> <<>>]

\* The API call that produced a state: its name, the operation it was called
\* on (StartOperation: the operation it returned), the type of its payload
\* (RegisterOperation: the argument key and, in res, the result key), the
\* listener ids of the UnregisterFunc it returned or ran, and whether it
\* panicked.  withParent is the operation that StartOperation was given.
Call(name, o, t, r, ids, p) ==
    [name |-> name, op |-> o, type |-> t, res |-> r, ids |-> ids, panicked |-> p,
     withParent |-> NoOp]

\* The listener table of one kind.
RegisterOf(kind) ==
    CASE kind = "start" -> onStart
      [] kind = "data" -> onData
      [] kind = "finish" -> onFinish

\* ------------------------------------------------------ type validation
\* validateEventListenerKey: the key's type, or an error.
validateEventListenerKey(key) ==
    IF key \in Types THEN [type |-> key, err |-> FALSE]
                     ELSE [type |-> NilType, err |-> TRUE]

\* Mutant: the result type is never compared.
validateExpectedRes_Never(res, expectedRes) == FALSE

\* validateExpectedRes: TRUE when it returns an error.
validateExpectedRes(res, expectedRes) == res # expectedRes

\* Mutant: an unknown argument type yields the zero type and no error.
getOperationRes_NoError(args) ==
    [res |-> IF args \in DOMAIN operationRegister
             THEN operationRegister[args] ELSE NilType,
     err |-> FALSE]

\* getOperationRes: the registered result type, or an error.
getOperationRes(args) ==
    IF args \in DOMAIN operationRegister
    THEN [res |-> operationRegister[args], err |-> FALSE]
    ELSE [res |-> NilType, err |-> TRUE]

\* ------------------------------------------------------------ dispatch
Parent(o) == parent[o]

\* The parent of a new operation: the one WithParent set, Root when the
\* field is still nil after the options ran.
defaultParent_Nil(withParent) == withParent

defaultParent(withParent) == IF withParent = NoOp THEN Root ELSE withParent

\* One listener invocation: listener `id` of `node` called with (op, payload).
Invocation(node, kind, id, o, payload) ==
    [node |-> node, kind |-> kind, id |-> id, op |-> o, payload |-> payload]

\* Mutant: the listeners of the node are called whatever type they watch.
emitEvent_AnyType(node, kind, o, payload) ==
    IF disabled[node]
    THEN <<>>
    ELSE LET ls == RegisterOf(kind)[node]["T1"] \o RegisterOf(kind)[node]["T2"]
         IN  [i \in 1 .. Len(ls) |-> Invocation(node, kind, ls[i], o, payload)]

\* eventManager.emitEvent on one node: nothing when the node is disabled,
\* else the listeners keyed by the payload's type, in registration order.
emitEvent(node, kind, o, payload) ==
    IF disabled[node] \/ payload \notin Types
    THEN <<>>
    ELSE LET ls == RegisterOf(kind)[node][payload]
         IN  [i \in 1 .. Len(ls) |-> Invocation(node, kind, ls[i], o, payload)]

emitStartEvent(node, o, args) == emitEvent(node, "start", o, args)
emitDataEvent(node, o, data) == emitEvent(node, "data", o, data)
emitFinishEvent(node, o, results) == emitEvent(node, "finish", o, results)

\* Mutant: the start event reaches the parent and goes no further.
StartWalk_ParentOnly(first, o, args) ==
    IF first = NoOp THEN <<>> ELSE emitStartEvent(first, o, args)

\* Mutant: the start walk ends at the first disabled ancestor.
RECURSIVE StartWalk_StopAtDisabled(_, _, _)
StartWalk_StopAtDisabled(first, o, args) ==
    IF first = NoOp \/ disabled[first] THEN <<>>
    ELSE emitStartEvent(first, o, args)
             \o StartWalk_StopAtDisabled(Parent(first), o, args)

\* for op := o.Parent(); op != nil; op = op.Parent() { op.emitStartEvent(o, args) }
\* (first is o.Parent(): the new operation o is not yet in the tables)
RECURSIVE StartWalk(_, _, _)
StartWalk(first, o, args) ==
    IF first = NoOp THEN <<>>
    ELSE emitStartEvent(first, o, args) \o StartWalk(Parent(first), o, args)

\* Mutant: the finish walk leaves out the operation itself, as if it were
\* disabled before the walk.
RECURSIVE FinishWalk_SkipSelf(_, _, _)
FinishWalk_SkipSelf(op, o, results) ==
    IF op = NoOp THEN <<>>
    ELSE (IF op = o THEN <<>> ELSE emitFinishEvent(op, o, results))
             \o FinishWalk_SkipSelf(Parent(op), o, results)

\* for op := o; op != nil; op = op.Parent() { op.emitFinishEvent(o, results) }
RECURSIVE FinishWalk(_, _, _)
FinishWalk(op, o, results) ==
    IF op = NoOp THEN <<>>
    ELSE emitFinishEvent(op, o, results) \o FinishWalk(Parent(op), o, results)

\* Mutant: the data walk calls the outermost node first.
RECURSIVE DataWalk_RootFirst(_, _, _)
DataWalk_RootFirst(op, o, data) ==
    IF op = NoOp THEN <<>>
    ELSE DataWalk_RootFirst(Parent(op), o, data) \o emitDataEvent(op, o, data)

\* for op := o; op != nil; op = op.Parent() { op.emitDataEvent(o, data) }
RECURSIVE DataWalk(_, _, _)
DataWalk(op, o, data) ==
    IF op = NoOp THEN <<>>
    ELSE emitDataEvent(op, o, data) \o DataWalk(Parent(op), o, data)

\* Mutant: disabling an operation disables its parent with it.
disable_WithParent(e) ==
    LET both == {e} \cup ({parent[e]} \ {NoOp})
    IN  /\ disabled' = [n \in DOMAIN disabled |-> disabled[n] \/ n \in both]
        /\ onStart' = [n \in DOMAIN onStart |->
                           IF n \in both THEN EmptyRegister ELSE onStart[n]]
        /\ onData' = [n \in DOMAIN onData |->
                          IF n \in both THEN EmptyRegister ELSE onData[n]]
        /\ onFinish' = [n \in DOMAIN onFinish |->
                            IF n \in both THEN EmptyRegister ELSE onFinish[n]]

\* Mutant: disabling an operation disables its children with it.
disable_WithChildren(e) ==
    LET all == {e} \cup {n \in ops : parent[n] = e}
    IN  /\ disabled' = [n \in DOMAIN disabled |-> disabled[n] \/ n \in all]
        /\ onStart' = [n \in DOMAIN onStart |->
                           IF n \in all THEN EmptyRegister ELSE onStart[n]]
        /\ onData' = [n \in DOMAIN onData |->
                          IF n \in all THEN EmptyRegister ELSE onData[n]]
        /\ onFinish' = [n \in DOMAIN onFinish |->
                            IF n \in all THEN EmptyRegister ELSE onFinish[n]]

\* eventManager.disable
disable(e) ==
    /\ disabled' = [disabled EXCEPT ![e] = TRUE]
    /\ onStart' = [onStart EXCEPT ![e] = EmptyRegister]
    /\ onData' = [onData EXCEPT ![e] = EmptyRegister]
    /\ onFinish' = [onFinish EXCEPT ![e] = EmptyRegister]

\* ------------------------------------------------ listener registration
\* The tables threaded through one Register or unregistration call.
Tables == [start |-> onStart, data |-> onData, finish |-> onFinish,
           next |-> nextId, ids |-> <<>>]

\* EventListener.registerTo: adds the listener under a fresh id unless the
\* operation is disabled; returns the eventUnregister for it.
registerTo(l, o, st) ==
    IF disabled[o]
    THEN [st EXCEPT !.ids = Append(@, NoId)]
    ELSE [st EXCEPT ![l.kind] = [@ EXCEPT ![o][l.key] = Append(@, st.next)],
                    !.next = @ + 1,
                    !.ids = Append(@, st.next)]

\* eventUnregister.unregisterFrom: removes the entry with that id, if any.
Without(list, id) == SelectSeq(list, LAMBDA x : x # id)

unregisterFrom(id, o, st) ==
    [st EXCEPT !.start = [@ EXCEPT ![o] = [t \in Types |-> Without(@[t], id)]],
               !.data = [@ EXCEPT ![o] = [t \in Types |-> Without(@[t], id)]],
               !.finish = [@ EXCEPT ![o] = [t \in Types |-> Without(@[t], id)]]]

\* Mutant: only the first listener of the list is registered.
RegisterLoop_FirstOnly(l, i, o, st) ==
    IF Len(l) = 0 THEN st ELSE registerTo(l[1], o, st)

\* for i, l := range l { ids[i] = l.registerTo(o) }
RECURSIVE RegisterLoop(_, _, _, _)
RegisterLoop(l, i, o, st) ==
    IF i > Len(l) THEN st
    ELSE RegisterLoop(l, i + 1, o, registerTo(l[i], o, st))

\* Mutant: the closure unregisters the first listener only.
UnregisterLoop_FirstOnly(ids, i, o, st) ==
    IF Len(ids) = 0 THEN st ELSE unregisterFrom(ids[1], o, st)

\* The returned closure: for _, id := range ids { id.unregisterFrom(o) }
RECURSIVE UnregisterLoop(_, _, _, _)
UnregisterLoop(ids, i, o, st) ==
    IF i > Len(ids) THEN st
    ELSE UnregisterLoop(ids, i + 1, o, unregisterFrom(ids[i], o, st))

\* -------------------------------------------------------------- threads
\* A thread between two calls.  In a call: at is the position, name the
\* function, op the operation it is called on (StartOperation: the new
\* operation), cur the node the walk is at, type the payload's type, log the
\* listener invocations made so far, skipped the nodes found disabled,
\* attached the ids that listener bodies registered on the new operation.
Idle ==
    [at |-> "idle", name |-> "none", op |-> NoOp, cur |-> NoOp,
     type |-> NilType, log |-> <<>>, skipped |-> {}, attached |-> <<>>,
     panicked |-> FALSE]

\* sync.RWMutex: readers[t] counts the read locks thread t holds, writer is
\* the thread holding the write lock, pending the threads blocked in Lock.
FreeMutex ==
    [readers |-> [t \in Threads |-> 0], writer |-> NoThread, pending |-> {}]

\* RLock returns when no writer holds the mutex and none is blocked in Lock:
\* a blocked Lock call excludes new readers, also those of a thread that
\* already holds a read lock.
CanRLock(n) == mu[n].writer = NoThread /\ mu[n].pending = {}

\* Lock returns when nobody holds the mutex.
CanLock(n) ==
    mu[n].writer = NoThread /\ \A t \in Threads : mu[n].readers[t] = 0

RLock(m, n, t) == [m EXCEPT ![n].readers[t] = @ + 1]
RUnlock(m, n, t) == [m EXCEPT ![n].readers[t] = @ - 1]

\* The locks thread t holds, counted with multiplicity.
RECURSIVE HeldOn(_, _)
HeldOn(t, nodes) ==
    IF nodes = {} THEN 0
    ELSE LET n == CHOOSE x \in nodes : TRUE
         IN  mu[n].readers[t] + (IF mu[n].writer = t THEN 1 ELSE 0)
                 + HeldOn(t, nodes \ {n})

Held(t) == HeldOn(t, OpIds)

\* An operation that its StartOperation call has returned.
Published(o) ==
    /\ o \in ops
    /\ \A t \in Threads :
          ~(pc[t].name = "StartOperation" /\ pc[t].op = o /\ pc[t].at # "done")

KindOf(name) ==
    CASE name = "StartOperation" -> "start"
      [] name = "EmitData" -> "data"
      [] name = "Finish" -> "finish"

\* Where a call goes on when its walk has passed Root.
AfterWalk(name) ==
    CASE name = "StartOperation" -> "done"
      [] name = "EmitData" -> "exit"
      [] name = "Finish" -> "disable"

\* StartOperation up to the walk: the lookup and the allocation.
StartOperationEnter(t, args, withParent) ==
    LET found == getOperationRes(args)
        o == Cardinality(ops)
        p == defaultParent(withParent)
        c == [Idle EXCEPT !.name = "StartOperation", !.type = args]
    IN  /\ pc[t].at = "idle"
        /\ withParent = NoOp \/ Published(withParent)
        /\ IF found.err
           THEN /\ pc' = [pc EXCEPT ![t] = [c EXCEPT !.at = "done",
                                                     !.panicked = TRUE]]
                /\ UNCHANGED <<ops, parent, expectedResType, disabled, onStart,
                               onData, onFinish>>
           ELSE /\ Cardinality(ops) <= MaxOps
                /\ ops' = ops \cup {o}
                /\ parent' = parent @@ (o :> p)
                /\ expectedResType' = expectedResType @@ (o :> found.res)
                /\ disabled' = disabled @@ (o :> FALSE)
                /\ onStart' = onStart @@ (o :> EmptyRegister)
                /\ onData' = onData @@ (o :> EmptyRegister)
                /\ onFinish' = onFinish @@ (o :> EmptyRegister)
                /\ pc' = [pc EXCEPT ![t] = [c EXCEPT !.at = "walk", !.op = o,
                                                     !.cur = p]]
        /\ UNCHANGED <<operationRegister, operationResRegister, nextId, handles,
                       lastCall, calls, mu, attachers, apiVars>>

\* EmitData up to the walk: o.mu.RLock(), deferred RUnlock, and the check
\* of o.disabled.
EmitDataEnter(t, o, data) ==
    LET c == [Idle EXCEPT !.name = "EmitData", !.op = o, !.type = data]
    IN  /\ pc[t].at = "idle"
        /\ Published(o)
        /\ CanRLock(o)
        /\ mu' = RLock(mu, o, t)
        /\ pc' = [pc EXCEPT ![t] =
                     IF disabled[o]
                     THEN [c EXCEPT !.at = "exit", !.skipped = {o}]
                     ELSE [c EXCEPT !.at = "walk", !.cur = o]]
        /\ UNCHANGED <<ops, parent, expectedResType, disabled, onStart, onData,
                       onFinish, operationRegister, operationResRegister,
                       nextId, handles, lastCall, calls, attachers, apiVars>>

\* EmitData's deferred o.mu.RUnlock().
EmitDataExit(t) ==
    /\ pc[t].at = "exit"
    /\ mu' = RUnlock(mu, pc[t].op, t)
    /\ pc' = [pc EXCEPT ![t].at = "done"]
    /\ UNCHANGED <<ops, parent, expectedResType, disabled, onStart, onData,
                   onFinish, operationRegister, operationResRegister,
                   nextId, handles, lastCall, calls, attachers, apiVars>>

\* Finish up to the walk: validateExpectedRes, which panics on a mismatch;
\* the deferred o.disable() then runs.
FinishEnter(t, o, results) ==
    LET c == [Idle EXCEPT !.name = "Finish", !.op = o, !.type = results]
    IN  /\ pc[t].at = "idle"
        /\ Published(o)
        /\ pc' = [pc EXCEPT ![t] =
                     IF validateExpectedRes(results, expectedResType[o])
                     THEN [c EXCEPT !.at = "disable", !.panicked = TRUE]
                     ELSE [c EXCEPT !.at = "walk", !.cur = o]]
        /\ UNCHANGED <<ops, parent, expectedResType, disabled, onStart, onData,
                       onFinish, operationRegister, operationResRegister,
                       nextId, handles, lastCall, calls, mu, attachers,
                       apiVars>>

\* emit*Event on the node the walk is at: e.mu.RLock().
WalkLock(t) ==
    /\ pc[t].at = "walk"
    /\ CanRLock(pc[t].cur)
    /\ mu' = RLock(mu, pc[t].cur, t)
    /\ pc' = [pc EXCEPT ![t].at = "emit"]
    /\ UNCHANGED <<ops, parent, expectedResType, disabled, onStart, onData,
                   onFinish, operationRegister, operationResRegister,
                   nextId, handles, lastCall, calls, attachers, apiVars>>

\* The position after the node cur: its parent, or the end of the walk.
Advance(c) ==
    [c EXCEPT !.cur = Parent(c.cur),
              !.at = IF Parent(c.cur) = NoOp THEN AfterWalk(c.name) ELSE "walk"]

\* emit*Event with the read lock held: the listeners are called unless the
\* node is disabled, then e.mu.RUnlock() and the loop's op = op.Parent().
\* When a start listener that registers on the new operation was called,
\* its body runs next, the read lock still held.
WalkEmit(t) ==
    LET c == pc[t]
        inv == emitEvent(c.cur, KindOf(c.name), c.op, c.type)
        body == /\ c.name = "StartOperation"
                /\ \E i \in 1 .. Len(inv) : inv[i].id \in attachers
        d == [c EXCEPT !.log = @ \o inv,
                       !.skipped = IF disabled[c.cur] THEN @ \cup {c.cur} ELSE @]
    IN  /\ c.at = "emit"
        /\ IF body
           THEN /\ pc' = [pc EXCEPT ![t] = [d EXCEPT !.at = "callback"]]
                /\ UNCHANGED mu
           ELSE /\ pc' = [pc EXCEPT ![t] = Advance(d)]
                /\ mu' = RUnlock(mu, c.cur, t)
        /\ UNCHANGED <<ops, parent, expectedResType, disabled, onStart, onData,
                       onFinish, operationRegister, operationResRegister,
                       nextId, handles, lastCall, calls, attachers, apiVars>>

\* What the body of an attaching start listener registers on the operation
\* it is called with.
AttachedListeners ==
    <<[kind |-> "data", key |-> "T1"], [kind |-> "finish", key |-> "T1"]>>

\* The body of an attaching start listener: op.Register(...) on the new
\* operation, which takes that operation's mutex; then the walk goes on.
WalkCallback(t) ==
    LET c == pc[t]
        st == RegisterLoop(AttachedListeners, 1, c.op, Tables)
    IN  /\ c.at = "callback"
        /\ CanLock(c.op)
        /\ onStart' = st.start
        /\ onData' = st.data
        /\ onFinish' = st.finish
        /\ nextId' = st.next
        /\ pc' = [pc EXCEPT ![t] = Advance([c EXCEPT !.attached = @ \o st.ids])]
        /\ mu' = RUnlock(mu, c.cur, t)
        /\ UNCHANGED <<ops, parent, expectedResType, disabled,
                       operationRegister, operationResRegister, handles,
                       lastCall, calls, attachers, apiVars>>

\* disable: e.mu.Lock() is called and waits for the mutex.
disableLock(t) ==
    /\ pc[t].at = "disable"
    /\ mu' = [mu EXCEPT ![pc[t].op].pending = @ \cup {t}]
    /\ pc' = [pc EXCEPT ![t].at = "locking"]
    /\ UNCHANGED <<ops, parent, expectedResType, disabled, onStart, onData,
                   onFinish, operationRegister, operationResRegister,
                   nextId, handles, lastCall, calls, attachers, apiVars>>

\* disable: e.mu.Lock() returns.
disableLocked(t) ==
    /\ pc[t].at = "locking"
    /\ CanLock(pc[t].op)
    /\ mu' = [mu EXCEPT ![pc[t].op].pending = @ \ {t},
                        ![pc[t].op].writer = t]
    /\ pc' = [pc EXCEPT ![t].at = "locked"]
    /\ UNCHANGED <<ops, parent, expectedResType, disabled, onStart, onData,
                   onFinish, operationRegister, operationResRegister,
                   nextId, handles, lastCall, calls, attachers, apiVars>>

\* disable with the mutex held: the flag, the three clears, the deferred
\* e.mu.Unlock(); Finish returns (or goes on panicking).
disableUnlock(t) ==
    /\ pc[t].at = "locked"
    /\ disable(pc[t].op)
    /\ mu' = [mu EXCEPT ![pc[t].op].writer = NoThread]
    /\ pc' = [pc EXCEPT ![t].at = "done"]
    /\ UNCHANGED <<ops, parent, expectedResType, operationRegister,
                   operationResRegister, nextId, handles, lastCall, calls,
                   attachers, apiVars>>

\* Register of one start listener watching T1 whose body registers
\* AttachedListeners on the operation it is called with.
RegisterAttacher(o) ==
    LET st == RegisterLoop(<<[kind |-> "start", key |-> "T1"]>>, 1, o, Tables)
    IN  /\ o \in ops
        /\ ~disabled[o]
        /\ attachers = {}
        /\ nextId <= MaxListeners
        /\ onStart' = st.start
        /\ onData' = st.data
        /\ onFinish' = st.finish
        /\ nextId' = st.next
        /\ attachers' = attachers \cup {nextId}
        /\ lastCall' = Call("Register", o, NilType, NilType, st.ids, FALSE)
        /\ calls' = <<>>
        /\ UNCHANGED <<ops, parent, expectedResType, disabled,
                       operationRegister, operationResRegister, handles,
                       pc, mu, apiVars>>

\* ---------------------------------------------------------------- Init
NoBatch == <<>>            \* FromSecurityEvents has not returned yet

InitOperations ==
    /\ ops = {Root}
    /\ parent = (Root :> NoOp)
    /\ expectedResType = (Root :> NilType)
    /\ disabled = (Root :> FALSE)
    /\ onStart = (Root :> EmptyRegister)
    /\ onData = (Root :> EmptyRegister)
    /\ onFinish = (Root :> EmptyRegister)
    /\ operationRegister = <<>>
    /\ operationResRegister = {}
    /\ nextId = 1
    /\ handles = {}
    /\ lastCall = Call("init", NoOp, NilType, NilType, <<>>, FALSE)
    /\ calls = <<>>
    /\ pc = [t \in Threads |-> Idle]
    /\ mu = [n \in OpIds |-> FreeMutex]
    /\ attachers = {}

Init ==
    /\ InitOperations
    /\ securityEvents = <<>>
    /\ batch = NoBatch

\* ------------------------------------------------------------- actions
\* Mutant: a registered argument type is registered again, overwriting.
RegisterOperation_Overwrite(args, res) ==
    LET a == validateEventListenerKey(args)
        r == validateEventListenerKey(res)
    IN  /\ IF a.err \/ r.err
           THEN /\ lastCall' = Call("RegisterOperation", NoOp, args, res, <<>>, TRUE)
                /\ UNCHANGED <<operationRegister, operationResRegister>>
           ELSE /\ lastCall' = Call("RegisterOperation", NoOp, args, res, <<>>, FALSE)
                /\ operationRegister' =
                       [t \in DOMAIN operationRegister \cup {a.type} |->
                           IF t = a.type THEN r.type ELSE operationRegister[t]]
                /\ operationResRegister' = operationResRegister \cup {r.type}
        /\ calls' = <<>>
        /\ UNCHANGED <<ops, parent, expectedResType, disabled, onStart, onData,
                       onFinish, nextId, handles>>
        /\ UNCHANGED <<threadVars, apiVars>>

RegisterOperation(args, res) ==
    LET a == validateEventListenerKey(args)
        r == validateEventListenerKey(res)
    IN  /\ IF a.err \/ r.err \/ a.type \in DOMAIN operationRegister
           THEN /\ lastCall' = Call("RegisterOperation", NoOp, args, res, <<>>, TRUE)
                /\ UNCHANGED <<operationRegister, operationResRegister>>
           ELSE /\ lastCall' = Call("RegisterOperation", NoOp, args, res, <<>>, FALSE)
                /\ operationRegister' = operationRegister @@ (a.type :> r.type)
                /\ operationResRegister' = operationResRegister \cup {r.type}
        /\ calls' = <<>>
        /\ UNCHANGED <<ops, parent, expectedResType, disabled, onStart, onData,
                       onFinish, nextId, handles>>
        /\ UNCHANGED <<threadVars, apiVars>>

\* withParent = NoOp stands for no option and for WithParent(nil).
StartOperation(args, withParent) ==
    LET found == getOperationRes(args)
        o == Cardinality(ops)
        p == defaultParent(withParent)
    IN  /\ withParent \in ops \cup {NoOp}
        /\ IF found.err
           THEN /\ lastCall' = [Call("StartOperation", NoOp, args, NilType, <<>>, TRUE)
                                   EXCEPT !.withParent = withParent]
                /\ calls' = <<>>
                /\ UNCHANGED <<ops, parent, expectedResType, disabled, onStart,
                               onData, onFinish>>
           ELSE /\ Cardinality(ops) <= MaxOps
                /\ ops' = ops \cup {o}
                /\ parent' = parent @@ (o :> p)
                /\ expectedResType' = expectedResType @@ (o :> found.res)
                /\ disabled' = disabled @@ (o :> FALSE)
                /\ onStart' = onStart @@ (o :> EmptyRegister)
                /\ onData' = onData @@ (o :> EmptyRegister)
                /\ onFinish' = onFinish @@ (o :> EmptyRegister)
                /\ calls' = StartWalk(p, o, args)
                /\ lastCall' = [Call("StartOperation", o, args, NilType, <<>>, FALSE)
                                   EXCEPT !.withParent = withParent]
        /\ UNCHANGED <<operationRegister, operationResRegister, nextId, handles>>
        /\ UNCHANGED <<threadVars, apiVars>>

\* Mutant: disable is called at the end of Finish instead of being deferred,
\* so that the panic skips it.
Finish_DisableNotDeferred(o, results) ==
    /\ o \in ops
    /\ IF validateExpectedRes(results, expectedResType[o])
       THEN /\ calls' = <<>>
            /\ lastCall' = Call("Finish", o, results, NilType, <<>>, TRUE)
            /\ UNCHANGED <<disabled, onStart, onData, onFinish>>
       ELSE /\ calls' = FinishWalk(o, o, results)
            /\ lastCall' = Call("Finish", o, results, NilType, <<>>, FALSE)
            /\ disable(o)
    /\ UNCHANGED <<ops, parent, expectedResType, operationRegister,
                   operationResRegister, nextId, handles>>
    /\ UNCHANGED <<threadVars, apiVars>>

Finish(o, results) ==
    /\ o \in ops
    /\ IF validateExpectedRes(results, expectedResType[o])
       THEN /\ calls' = <<>>
            /\ lastCall' = Call("Finish", o, results, NilType, <<>>, TRUE)
       ELSE /\ calls' = FinishWalk(o, o, results)
            /\ lastCall' = Call("Finish", o, results, NilType, <<>>, FALSE)
    /\ disable(o)
    /\ UNCHANGED <<ops, parent, expectedResType, operationRegister,
                   operationResRegister, nextId, handles>>
    /\ UNCHANGED <<threadVars, apiVars>>

\* Mutant: data is dispatched without looking at the disabled flag.
EmitData_NoDisabledCheck(o, data) ==
    /\ o \in ops
    /\ calls' = DataWalk(o, o, data)
    /\ lastCall' = Call("EmitData", o, data, NilType, <<>>, FALSE)
    /\ UNCHANGED <<ops, parent, expectedResType, disabled, onStart, onData,
                   onFinish, operationRegister, operationResRegister, nextId,
                   handles>>
    /\ UNCHANGED <<threadVars, apiVars>>

EmitData(o, data) ==
    /\ o \in ops
    /\ calls' = IF disabled[o] THEN <<>> ELSE DataWalk(o, o, data)
    /\ lastCall' = Call("EmitData", o, data, NilType, <<>>, FALSE)
    /\ UNCHANGED <<ops, parent, expectedResType, disabled, onStart, onData,
                   onFinish, operationRegister, operationResRegister, nextId,
                   handles>>
    /\ UNCHANGED <<threadVars, apiVars>>

\* The caller holds on to the returned UnregisterFunc when it carries the id
\* of an added listener, and drops one that has nothing to remove.
Register(o, l) ==
    LET st == RegisterLoop(l, 1, o, Tables)
        h == [op |-> o, ids |-> st.ids]
    IN  /\ o \in ops
        /\ nextId - 1 + Len(l) <= MaxListeners
        /\ onStart' = st.start
        /\ onData' = st.data
        /\ onFinish' = st.finish
        /\ nextId' = st.next
        /\ handles' = IF st.next > nextId THEN handles \cup {h} ELSE handles
        /\ lastCall' = Call("Register", o, NilType, NilType, st.ids, FALSE)
        /\ calls' = <<>>
        /\ UNCHANGED <<ops, parent, expectedResType, disabled,
                       operationRegister, operationResRegister>>
        /\ UNCHANGED <<threadVars, apiVars>>

\* A call of an UnregisterFunc returned earlier.
Unregister(h) ==
    LET st == UnregisterLoop(h.ids, 1, h.op, Tables)
    IN  /\ h \in handles
        /\ onStart' = st.start
        /\ onData' = st.data
        /\ onFinish' = st.finish
        /\ lastCall' = Call("Unregister", h.op, NilType, NilType, h.ids, FALSE)
        /\ calls' = <<>>
        /\ UNCHANGED <<ops, parent, expectedResType, disabled,
                       operationRegister, operationResRegister, nextId, handles>>
        /\ UNCHANGED <<threadVars, apiVars>>

\* ----------------------------------------------------------- inputs
Keys == Types \cup {InvalidKey}
Payloads == Types \cup {NilType}
\* The listeners all watch one type, so that a payload of the other type is
\* an event that no listener matches.
ListenerKeys == {"T1"}
Listeners == [kind : Kinds, key : ListenerKeys]
ListenerLists ==
    UNION {[1 .. n -> Listeners] : n \in 0 .. MaxListeners}

\* Spec declares operations of one argument type; SpecRegistry below draws
\* the argument key from all of Keys.
ArgKeys == {"T1", InvalidKey}

Next ==
    \/ \E args \in ArgKeys, res \in Keys : RegisterOperation(args, res)
    \/ \E args \in Types, p \in OpIds \cup {NoOp} : StartOperation(args, p)
    \/ \E o \in OpIds, results \in Payloads : Finish(o, results)
    \/ \E o \in OpIds, data \in Types : EmitData(o, data)
    \/ \E o \in OpIds, l \in ListenerLists : Register(o, l)
    \/ \E h \in handles : Unregister(h)

Spec == Init /\ [][Next]_vars

\* The type registry under every pair of keys, with the operations it types.
NextRegistry ==
    \/ \E args \in Keys, res \in Keys : RegisterOperation(args, res)
    \/ \E args \in Types, p \in OpIds \cup {NoOp} : StartOperation(args, p)
    \/ \E o \in OpIds, results \in Payloads : Finish(o, results)

SpecRegistry == Init /\ [][NextRegistry]_vars

\* ------------------------------------------------------- package api
\* The metadata of an attack is a JSON document.  What json.Unmarshal makes
\* of it: the matches it decoded and whether it failed; on failure the
\* matches are those decoded before the error.
Unmarshal(md) == [matches |-> md.matches, err |-> ~md.ok]

NewAttackContext(ctx, globalCtx) == [local |-> ctx, global |-> globalCtx]

\* The event id is a fresh uuid, the same token here for every event.
NewAttackEvent(ruleID, ruleName, attackType, at, match, attackCtx) ==
    [EventVersion |-> "0.1.0", EventID |-> "uuid",
     EventType |-> "appsec.threat.attack", DetectedAt |-> at,
     Type |-> attackType, Rule |-> [ID |-> ruleID, Name |-> ruleName],
     RuleMatch |-> match, Context |-> attackCtx]

\* for _, filter := range match.Filter { events = append(events, ...) }
RECURSIVE FilterLoop(_, _, _, _, _)
FilterLoop(match, i, t, attackContext, events) ==
    IF i > Len(match.Filter) THEN events
    ELSE LET filter == match.Filter[i]
             ruleMatch == [Operator |-> filter.Operator,
                           OperatorValue |-> filter.OperatorValue,
                           Parameters |-> <<[Name |-> filter.BindingAccessor,
                                             Value |-> filter.ResolvedValue]>>,
                           Highlight |-> <<filter.MatchStatus>>]
         IN  FilterLoop(match, i + 1, t, attackContext,
                        Append(events,
                               NewAttackEvent(match.Rule, match.Flow, match.Flow,
                                              t, ruleMatch, attackContext)))

\* for _, match := range matches { ... }
RECURSIVE MatchLoop(_, _, _, _, _)
MatchLoop(matches, i, t, attackContext, events) ==
    IF i > Len(matches) THEN events
    ELSE MatchLoop(matches, i + 1, t, attackContext,
                   FilterLoop(matches[i], 1, t, attackContext, events))

\* FromWAFAttack: nil and the error when the metadata does not parse, else
\* one event per match and per filter.
FromWAFAttack(t, md, attackContext) ==
    LET u == Unmarshal(md)
    IN  IF u.err THEN [events |-> <<>>, err |-> TRUE]
        ELSE [events |-> MatchLoop(u.matches, 1, t, attackContext, <<>>),
              err |-> FALSE]

\* Mutant: the first attack that does not parse ends the loop over the
\* attacks of its security event.
RECURSIVE AttackLoop_BreakOnError(_, _, _, _)
AttackLoop_BreakOnError(attacks, i, eventContext, events) ==
    IF i > Len(attacks) THEN events
    ELSE LET r == FromWAFAttack(attacks[i].Time, attacks[i].Metadata, eventContext)
         IN  IF r.err THEN events
             ELSE AttackLoop_BreakOnError(attacks, i + 1, eventContext,
                                          events \o r.events)

\* for _, attack := range event.Event { ...; if err != nil { log; continue };
\* batch.Events = append(batch.Events, attacks...) }
RECURSIVE AttackLoop(_, _, _, _)
AttackLoop(attacks, i, eventContext, events) ==
    IF i > Len(attacks) THEN events
    ELSE LET r == FromWAFAttack(attacks[i].Time, attacks[i].Metadata, eventContext)
         IN  AttackLoop(attacks, i + 1, eventContext,
                        IF r.err THEN events ELSE events \o r.events)

\* for _, event := range events { eventContext := NewAttackContext(...); ... }
RECURSIVE EventLoop(_, _, _, _)
EventLoop(events, i, globalContext, acc) ==
    IF i > Len(events) THEN acc
    ELSE EventLoop(events, i + 1, globalContext,
                   AttackLoop(events[i].Event, 1,
                              NewAttackContext(events[i].Context, globalContext),
                              acc))

\* The idempotency key is a fresh uuid.
FromSecurityEvents(events, globalContext) ==
    [IdempotencyKey |-> "uuid",
     Events |-> EventLoop(events, 1, globalContext, <<>>)]

GlobalContext == "global"

CallFromSecurityEvents ==
    /\ batch = NoBatch
    /\ batch' = <<FromSecurityEvents(securityEvents, GlobalContext)>>
    /\ UNCHANGED <<ops, parent, expectedResType, disabled, onStart, onData,
                   onFinish, operationRegister, operationResRegister, nextId,
                   handles, lastCall, calls, threadVars, securityEvents>>

\* The inputs: for every security event its attacks, for every attack
\* whether its metadata parses and the matches json.Unmarshal decodes from
\* it, for every match the number of its filters.
MatchCounts == UNION {[1 .. n -> 0 .. MaxFilters] : n \in 0 .. MaxMatches}
MetadataShapes ==
    [ok : {TRUE}, matches : MatchCounts]
        \cup [ok : {FALSE}, matches : {<<>>, <<1>>}]
AttackShapes == UNION {[1 .. n -> MetadataShapes] : n \in 0 .. MaxAttacks}
EventShapes == UNION {[1 .. n -> AttackShapes] : n \in 0 .. MaxEvents}

\* The security events of a shape.  The function reads no field, it only
\* copies them, so every field holds the position of its record in the
\* input: event e, attack a, match m, filter f.
SecurityEventsOf(shape) ==
    [e \in 1 .. Len(shape) |->
        [Context |-> <<e>>,
         Event |-> [a \in 1 .. Len(shape[e]) |->
            [Time |-> <<e, a>>,
             Metadata |->
                [ok |-> shape[e][a].ok,
                 matches |-> [m \in 1 .. Len(shape[e][a].matches) |->
                    [Rule |-> <<e, a, m>>,
                     Flow |-> <<e, a, m>>,
                     Filter |-> [f \in 1 .. shape[e][a].matches[m] |->
                        [Operator |-> <<e, a, m, f>>,
                         OperatorValue |-> <<e, a, m, f>>,
                         BindingAccessor |-> <<e, a, m, f>>,
                         ResolvedValue |-> <<e, a, m, f>>,
                         MatchStatus |-> <<e, a, m, f>>]]]]]]]]]

InitApi ==
    /\ InitOperations
    /\ securityEvents \in {SecurityEventsOf(shape) : shape \in EventShapes}
    /\ batch = NoBatch

NextApi == CallFromSecurityEvents

SpecApi == InitApi /\ [][NextApi]_vars

\* Calls run step by step by the threads, on a tree that calls made before
\* any thread started have built.  Each thread runs one call.
AllIdle == \A t \in Threads : pc[t].at = "idle"

NextThreads ==
    \/ AllIdle /\ RegisterOperation("T1", "T1")
    \/ \E p \in OpIds : AllIdle /\ StartOperation("T1", p)
    \/ \E o \in OpIds, l \in [1 .. 1 -> Listeners] : AllIdle /\ Register(o, l)
    \/ \E o \in OpIds : AllIdle /\ RegisterAttacher(o)
    \/ \E t \in Threads, p \in OpIds \cup {NoOp} : StartOperationEnter(t, "T1", p)
    \/ \E t \in Threads, o \in OpIds : EmitDataEnter(t, o, "T1")
    \/ \E t \in Threads, o \in OpIds : FinishEnter(t, o, "T1")
    \/ \E t \in Threads : WalkLock(t)
    \/ \E t \in Threads : WalkEmit(t)
    \/ \E t \in Threads : WalkCallback(t)
    \/ \E t \in Threads : EmitDataExit(t)
    \/ \E t \in Threads : disableLock(t)
    \/ \E t \in Threads : disableLocked(t)
    \/ \E t \in Threads : disableUnlock(t)

SpecThreads == Init /\ [][NextThreads]_vars

\* =================================================================
\* Properties
\* =================================================================
\* The nodes from o up to Root, o included, following parent links.
UpFrom(o) ==
    LET F[k \in 0 .. Cardinality(ops)] ==
            IF k = 0 THEN {o}
            ELSE F[k - 1] \cup ({parent[n] : n \in F[k - 1]} \ {NoOp})
    IN  F[Cardinality(ops)]

IdsOf(log) == [i \in 1 .. Len(log) |-> log[i].id]

\* log is a dispatch of one event of the given kind, emitted by operation o
\* with a payload of type t, to the listeners that the table reg holds on
\* the given nodes: every entry is a call (o, t) of a listener of one of the
\* nodes, every node's listeners watching t are each called once, in
\* registration order, and a deeper node's listeners are all called before
\* those of any of its ancestors.
Dispatched(log, nodes, reg, kind, o, t) ==
    /\ \A i \in 1 .. Len(log) :
          /\ log[i].node \in nodes
          /\ log[i].kind = kind
          /\ log[i].op = o
          /\ log[i].payload = t
    /\ \A n \in nodes :
          IdsOf(SelectSeq(log, LAMBDA c : c.node = n)) =
              (IF t \in Types THEN reg[n][t] ELSE <<>>)
    /\ \A i, j \in 1 .. Len(log) : i < j => log[j].node \in UpFrom(log[i].node)

\* Every listener collection of o is empty.
Cleared(o) ==
    /\ onStart[o] = EmptyRegister
    /\ onData[o] = EmptyRegister
    /\ onFinish[o] = EmptyRegister

\* C3: Finish(r) with type(r) different from the operation's expected result
\* type panics and invokes no listener of any kind on any node.
C3_MismatchedFinishIsFatal ==
    (lastCall.name = "Finish" /\ lastCall.type # expectedResType[lastCall.op])
        => (lastCall.panicked /\ calls = <<>>)

\* C3 witness: a mismatched Finish on an operation whose parent holds a
\* listener.
C3_Witness ==
    /\ lastCall.name = "Finish"
    /\ lastCall.op # Root
    /\ lastCall.type \in Types
    /\ lastCall.type # expectedResType[lastCall.op]
    /\ onFinish[parent[lastCall.op]][lastCall.type] # <<>>

\* C4: StartOperation invokes the start-listeners watching the argument type
\* on exactly the nodes parent(O) .. Root, parent first, each with (O, args),
\* and none registered on O itself.
C4_StartBubblesFromParent ==
    (lastCall.name = "StartOperation" /\ ~lastCall.panicked)
        => /\ Dispatched(calls, UpFrom(parent[lastCall.op]), onStart, "start",
                         lastCall.op, lastCall.type)
           /\ \A i \in 1 .. Len(calls) : calls[i].node # lastCall.op

\* C4 witness: an operation started under a non-root parent, with a start
\* listener called on the parent and one on Root.
C4_Witness ==
    /\ lastCall.name = "StartOperation"
    /\ ~lastCall.panicked
    /\ parent[lastCall.op] # Root
    /\ \E i, j \in 1 .. Len(calls) :
          calls[i].node = parent[lastCall.op] /\ calls[j].node = Root

\* C5: EmitData(d) on an Active operation O invokes the data-listeners
\* watching type(d) on exactly O, parent(O), .., Root, deeper nodes first,
\* each with (O, d); nodes outside that chain receive nothing.
C5_DataBubblesFromSelf ==
    (lastCall.name = "EmitData" /\ ~disabled[lastCall.op])
        => Dispatched(calls, UpFrom(lastCall.op), onData, "data",
                      lastCall.op, lastCall.type)

\* C5 witness: data emitted by an operation that has a parent other than
\* Root; its own listener is called first, then one of an ancestor.
C5_Witness ==
    /\ lastCall.name = "EmitData"
    /\ parent[lastCall.op] \notin {NoOp, Root}
    /\ Len(calls) = 2
    /\ calls[1].node = lastCall.op
    /\ calls[2].node # lastCall.op

\* C6: once O is Disabled, EmitData on O invokes no listener on any node, a
\* Register on O adds nothing, and O's listener collections stay empty.
C6_DisabledIsInert ==
    /\ \A o \in ops : disabled[o] => Cleared(o)
    /\ (lastCall.name = "EmitData" /\ disabled[lastCall.op]) => calls = <<>>
    /\ (lastCall.name = "Register" /\ disabled[lastCall.op])
          => \A i \in 1 .. Len(lastCall.ids) : lastCall.ids[i] = NoId

\* C6 witness: data emitted by a Disabled operation whose Active parent
\* holds a listener watching the data's type.
C6_Witness ==
    /\ lastCall.name = "EmitData"
    /\ disabled[lastCall.op]
    /\ lastCall.op # Root
    /\ ~disabled[parent[lastCall.op]]
    /\ onData[parent[lastCall.op]][lastCall.type] # <<>>

\* The listener ids held by o, over the three given collections.
IdsIn(regs, o) ==
    UNION {{reg[o][t][i] : i \in 1 .. Len(reg[o][t])} : t \in Types, reg \in regs}

IdsOn(o) == IdsIn({onStart, onData, onFinish}, o)

Range(seq) == {seq[i] : i \in 1 .. Len(seq)}

\* C1 (as claimed): Finish with a correctly typed result on an operation that
\* is already Disabled does not panic and invokes no listener, neither on the
\* operation nor on any of its ancestors.
C1_FinishOnDisabledIsNoOp ==
    [][\A o \in ops :
          (/\ disabled[o]
           /\ lastCall'.name = "Finish"
           /\ lastCall'.op = o
           /\ lastCall'.type = expectedResType[o])
              => (~lastCall'.panicked /\ calls' = <<>>)]_vars

\* C2: Finish(r) with the expected result type on an Active operation O
\* invokes the finish-listeners watching type(r) on exactly O, parent(O), ..,
\* Root, deeper nodes first, each with (O, r); after it O is Disabled and its
\* three listener collections are empty.
C2_FinishBubblesThenDisables ==
    [][\A o \in ops :
          (/\ ~disabled[o]
           /\ lastCall'.name = "Finish"
           /\ lastCall'.op = o
           /\ lastCall'.type = expectedResType[o])
              => /\ ~lastCall'.panicked
                 /\ Dispatched(calls', UpFrom(o), onFinish, "finish", o,
                               lastCall'.type)
                 /\ disabled'[o]
                 /\ onStart'[o] = EmptyRegister
                 /\ onData'[o] = EmptyRegister
                 /\ onFinish'[o] = EmptyRegister]_vars

\* C2 witness: a finished operation with a parent other than Root whose own
\* finish-listener was called first, then one of an ancestor.
C2_Witness ==
    /\ lastCall.name = "Finish"
    /\ ~lastCall.panicked
    /\ parent[lastCall.op] \notin {NoOp, Root}
    /\ Len(calls) = 2
    /\ calls[1].node = lastCall.op
    /\ calls[2].node # lastCall.op
    /\ disabled[lastCall.op]

\* C7 (as claimed): Root is Active in every reachable state.
C7_RootAlwaysActive == ~disabled[Root]

\* C7 (amended): a call other than Finish on Root itself leaves Root Active,
\* and leaves Root's listener collections as they are unless it is a
\* Register on Root or the run of an UnregisterFunc of Root.
C7_OnlyFinishOnRootDisablesRoot ==
    [][(~disabled[Root] /\ ~(lastCall'.name = "Finish" /\ lastCall'.op = Root))
          => /\ ~disabled'[Root]
             /\ (lastCall'.name \in {"Register", "Unregister"} /\ lastCall'.op = Root)
                   \/ (/\ onStart'[Root] = onStart[Root]
                       /\ onData'[Root] = onData[Root]
                       /\ onFinish'[Root] = onFinish[Root])]_vars

\* C7 witness: a child of Root has finished and dispatched to a listener of
\* Root, and Root is still Active.
C7_Witness ==
    /\ lastCall.name = "Finish"
    /\ lastCall.op # Root
    /\ parent[lastCall.op] = Root
    /\ ~disabled[Root]
    /\ \E i \in 1 .. Len(calls) : calls[i].node = Root

\* C8: RegisterOperation(a, r) with a not yet registered adds exactly a -> r;
\* with a already registered it panics; either way the entries that exist
\* stay as they are.
C8_RegistryIsWriteOnce ==
    [][/\ \A a \in DOMAIN operationRegister :
             /\ a \in DOMAIN operationRegister'
             /\ operationRegister'[a] = operationRegister[a]
       /\ (/\ lastCall'.name = "RegisterOperation"
           /\ lastCall'.type \in Types
           /\ lastCall'.res \in Types)
             => IF lastCall'.type \in DOMAIN operationRegister
                THEN /\ lastCall'.panicked
                     /\ operationRegister' = operationRegister
                ELSE /\ ~lastCall'.panicked
                     /\ DOMAIN operationRegister' =
                            DOMAIN operationRegister \cup {lastCall'.type}
                     /\ operationRegister'[lastCall'.type] = lastCall'.res
       /\ lastCall'.name # "RegisterOperation"
             => operationRegister' = operationRegister]_vars

\* C8 witness: a second registration of an argument type, with another
\* result type, has panicked while another argument type is registered too.
C8_Witness ==
    /\ lastCall.name = "RegisterOperation"
    /\ lastCall.panicked
    /\ lastCall.type \in DOMAIN operationRegister
    /\ lastCall.res \in Types
    /\ lastCall.res # operationRegister[lastCall.type]
    /\ DOMAIN operationRegister = Types

\* C9: StartOperation with an argument type that is not registered panics,
\* creates no operation and invokes no listener; otherwise the operation it
\* returns expects the result type registered for its argument type.
C9_StartResolvesResultType ==
    [][lastCall'.name = "StartOperation"
          => IF lastCall'.type \in DOMAIN operationRegister
             THEN /\ ~lastCall'.panicked
                  /\ lastCall'.op \notin ops
                  /\ ops' = ops \cup {lastCall'.op}
                  /\ expectedResType'[lastCall'.op] =
                         operationRegister[lastCall'.type]
             ELSE /\ lastCall'.panicked
                  /\ ops' = ops
                  /\ calls' = <<>>]_vars

\* C9 witness: StartOperation has panicked on an argument type that Root
\* holds a start-listener for.
C9_Witness ==
    /\ lastCall.name = "StartOperation"
    /\ lastCall.panicked
    /\ lastCall.type \in Types
    /\ onStart[Root][lastCall.type] # <<>>

\* C10: Register on an Active O adds one entry per listener, all on O, and
\* returns an UnregisterFunc for exactly those; running the UnregisterFunc
\* removes those entries and no other, and running it when they are gone
\* (run before, or cleared because O was Disabled) changes nothing; it never
\* panics.
C10_UnregisterRemovesItsOwn ==
    [][/\ lastCall'.name = "Register"
             => /\ ~lastCall'.panicked
                /\ ~disabled[lastCall'.op]
                      => /\ Len(lastCall'.ids) = Cardinality(Range(lastCall'.ids))
                         /\ Range(lastCall'.ids) \cap IdsOn(lastCall'.op) = {}
                         /\ IdsIn({onStart', onData', onFinish'}, lastCall'.op) =
                                IdsOn(lastCall'.op) \cup Range(lastCall'.ids)
                /\ \A o \in ops \ {lastCall'.op} :
                      IdsIn({onStart', onData', onFinish'}, o) = IdsOn(o)
       /\ lastCall'.name = "Unregister"
             => /\ ~lastCall'.panicked
                /\ \A o \in ops, t \in Types :
                      LET gone(list) ==
                              SelectSeq(list, LAMBDA x :
                                  ~(o = lastCall'.op /\ x \in Range(lastCall'.ids)))
                      IN  /\ onStart'[o][t] = gone(onStart[o][t])
                          /\ onData'[o][t] = gone(onData[o][t])
                          /\ onFinish'[o][t] = gone(onFinish[o][t])]_vars

\* C10 witness: an UnregisterFunc for two listeners has run and none of the
\* two is left.
C10_Witness ==
    /\ lastCall.name = "Unregister"
    /\ Len(lastCall.ids) = 2
    /\ ~disabled[lastCall.op]
    /\ IdsOn(lastCall.op) = {}

\* C11: every operation that StartOperation returned has a parent, the one
\* passed with WithParent or Root when none (or nil) was passed; no step
\* changes a parent link; following parent links from any operation reaches
\* Root without a cycle; Root is the only operation without a parent.
C11_ParentLinks ==
    /\ [](/\ \A o \in ops : (parent[o] = NoOp) <=> (o = Root)
          /\ \A o \in ops \ {Root} : parent[o] \in ops /\ parent[o] < o
          /\ \A o \in ops : Root \in UpFrom(o)
          /\ (lastCall.name = "StartOperation" /\ ~lastCall.panicked)
                => parent[lastCall.op] =
                      (IF lastCall.withParent = NoOp THEN Root
                                                    ELSE lastCall.withParent))
    /\ [][\A o \in ops : o \in ops' /\ parent'[o] = parent[o]]_vars

\* C11 witness: an operation started under a non-root parent that was itself
\* started without a parent option.
C11_Witness ==
    /\ lastCall.name = "StartOperation"
    /\ ~lastCall.panicked
    /\ lastCall.withParent \notin {NoOp, Root}
    /\ parent[lastCall.op] = lastCall.withParent
    /\ parent[lastCall.withParent] = Root

C13_OneLockAtATime ==
    \A t \in Threads : pc[t].at \in {"walk", "emit"} => Held(t) <= 1

\* C14: when two threads call Finish(r) on the same active operation O
\* concurrently with a correctly typed r, each finish listener on O .. Root
\* is invoked at most once for O: two Finish calls that both found O active
\* when they dispatched on it have no invocation in common.
C14_FinishAtMostOnce ==
    \A t1, t2 \in Threads :
        (/\ t1 # t2
         /\ pc[t1].name = "Finish" /\ pc[t2].name = "Finish"
         /\ pc[t1].op = pc[t2].op
         /\ ~pc[t1].panicked /\ ~pc[t2].panicked
         /\ pc[t1].op \notin pc[t1].skipped \cup pc[t2].skipped)
            => \A i \in 1 .. Len(pc[t1].log), j \in 1 .. Len(pc[t2].log) :
                  pc[t1].log[i] # pc[t2].log[j]

\* A thread waiting for a mutex that it cannot get in this state.
Blocked(t) ==
    \/ pc[t].at = "walk" /\ ~CanRLock(pc[t].cur)
    \/ pc[t].at \in {"locking", "callback"} /\ ~CanLock(pc[t].op)

\* C15: an EmitData call on O and a concurrent Finish call on O both
\* terminate under every interleaving: they are never both waiting for a
\* mutex that only the other one can release.
C15_EmitDataAndFinishTerminate ==
    \A t1, t2 \in Threads :
        (/\ pc[t1].name = "EmitData" /\ pc[t2].name = "Finish"
         /\ pc[t1].op = pc[t2].op)
            => ~(Blocked(t1) /\ Blocked(t2))

\* The listeners of node n that watch type t in the table reg.
Watching(reg, n, t) == IF t \in Types THEN reg[n][t] ELSE <<>>

\* The ids of the listeners of node n invoked in log, in order.
InvokedOn(log, n) == IdsOf(SelectSeq(log, LAMBDA c : c.node = n))

\* C16: once an operation is disabled none of its listeners is invoked by an
\* event passing through it, while the event still reaches the active
\* ancestors: a call invokes no listener of a node that was disabled when it
\* began, and the start event of a new operation, and the data and finish
\* events of an active operation, invoke the matching listeners of every
\* active node of their walk, disabled nodes in between or not.
C16_DisabledNodeIsSkipped ==
    [][LET c == lastCall'
       IN  /\ \A i \in 1 .. Len(calls') :
                 calls'[i].node \in ops /\ ~disabled[calls'[i].node]
           /\ (c.name = "StartOperation" /\ ~c.panicked)
                 => \A n \in UpFrom(parent'[c.op]) :
                       ~disabled[n]
                           => InvokedOn(calls', n) = Watching(onStart, n, c.type)
           /\ (c.name = "EmitData" /\ ~disabled[c.op])
                 => \A n \in UpFrom(c.op) :
                       ~disabled[n]
                           => InvokedOn(calls', n) = Watching(onData, n, c.type)
           /\ (c.name = "Finish" /\ ~c.panicked /\ ~disabled[c.op])
                 => \A n \in UpFrom(c.op) :
                       ~disabled[n]
                           => InvokedOn(calls', n) = Watching(onFinish, n, c.type)
      ]_vars

\* C16 witness: an operation started under a disabled parent other than
\* Root, its start event invoking a listener of Root.
C16_Witness ==
    /\ lastCall.name = "StartOperation"
    /\ ~lastCall.panicked
    /\ parent[lastCall.op] # Root
    /\ disabled[parent[lastCall.op]]
    /\ ~disabled[Root]
    /\ \E i \in 1 .. Len(calls) : calls[i].node = Root

\* The body of an attaching start listener ran during the call of thread t.
BodyRan(t) ==
    \E i \in 1 .. Len(pc[t].log) : pc[t].log[i].id \in attachers

\* C17: a listener that the body of an ancestor's start listener registers
\* on the new operation O during O's start dispatch is registered without
\* waiting for a lock and is in place when StartOperation returns, so that
\* a later EmitData or Finish of O that finds O active invokes it.
C17_AttachedDuringStart ==
    /\ \A t \in Threads : pc[t].at = "callback" => CanLock(pc[t].op)
    /\ \A t \in Threads :
          (pc[t].name = "StartOperation" /\ pc[t].at = "done" /\ BodyRan(t))
              => /\ Len(pc[t].attached) = Len(AttachedListeners)
                 /\ \A k \in 1 .. Len(pc[t].attached) :
                       \/ disabled[pc[t].op]
                       \/ pc[t].attached[k] \in
                              Range(RegisterOf(AttachedListeners[k].kind)
                                        [pc[t].op][AttachedListeners[k].key])
    /\ \A t1, t2 \in Threads :
          (/\ pc[t1].name = "StartOperation" /\ pc[t1].at = "done"
           /\ pc[t2].name \in {"EmitData", "Finish"}
           /\ pc[t2].op = pc[t1].op
           /\ ~pc[t2].panicked
           /\ pc[t2].cur # pc[t2].op
           /\ pc[t2].op \notin pc[t2].skipped)
              => \A k \in 1 .. Len(pc[t1].attached) :
                    (/\ AttachedListeners[k].kind = KindOf(pc[t2].name)
                     /\ AttachedListeners[k].key = pc[t2].type)
                        => \E i \in 1 .. Len(pc[t2].log) :
                              /\ pc[t2].log[i].id = pc[t1].attached[k]
                              /\ pc[t2].log[i].node = pc[t2].op
                              /\ pc[t2].log[i].op = pc[t2].op

\* C17 witness: StartOperation returned an operation on which a start
\* listener of an ancestor registered during the dispatch, and a later
\* Finish of that operation invoked the finish listener registered then.
C17_Witness ==
    \E t1, t2 \in Threads :
        /\ pc[t1].name = "StartOperation" /\ pc[t1].at = "done"
        /\ Len(pc[t1].attached) = 2
        /\ pc[t2].name = "Finish" /\ pc[t2].op = pc[t1].op
        /\ pc[t2].at = "done"
        /\ \E i \in 1 .. Len(pc[t2].log) :
              pc[t2].log[i].id = pc[t1].attached[2]

\* C18: after a Finish call on O has completed, by returning or by the panic
\* on a result of the wrong type, O is disabled and its start, data and
\* finish listener collections are empty.
C18_FinishAlwaysDisables ==
    lastCall.name = "Finish"
        => disabled[lastCall.op] /\ Cleared(lastCall.op)

\* C18 witness: a Finish on a non-root operation that panicked and left the
\* operation disabled, its parent still active.
C18_Witness ==
    /\ lastCall.name = "Finish"
    /\ lastCall.panicked
    /\ lastCall.op # Root
    /\ disabled[lastCall.op]
    /\ ~disabled[parent[lastCall.op]]

\* C19: a Finish call on O changes the disabled flag and the listener
\* collections of O only: the flag and the collections of every other
\* operation, and the parent and expected result type of every operation,
\* are what they were.
C19_FinishTouchesOnlyItsOperation ==
    [][lastCall'.name = "Finish"
          => /\ ops' = ops
             /\ parent' = parent
             /\ expectedResType' = expectedResType
             /\ \A n \in ops \ {lastCall'.op} :
                   /\ disabled'[n] = disabled[n]
                   /\ onStart'[n] = onStart[n]
                   /\ onData'[n] = onData[n]
                   /\ onFinish'[n] = onFinish[n]]_vars

\* C19 witness: a Finish on an operation that has an active child holding a
\* listener.
C19_Witness ==
    /\ lastCall.name = "Finish"
    /\ ~lastCall.panicked
    /\ \E n \in ops :
          /\ parent[n] = lastCall.op
          /\ ~disabled[n]
          /\ ~Cleared(n)

\* The (event, attack, match, filter) positions of the input whose attack
\* has metadata that parses.
ParsedPairs ==
    {p \in (1 .. MaxEvents) \X (1 .. MaxAttacks) \X (1 .. MaxMatches)
              \X (1 .. MaxFilters) :
        /\ p[1] <= Len(securityEvents)
        /\ p[2] <= Len(securityEvents[p[1]].Event)
        /\ securityEvents[p[1]].Event[p[2]].Metadata.ok
        /\ p[3] <= Len(securityEvents[p[1]].Event[p[2]].Metadata.matches)
        /\ p[4] <= Len(securityEvents[p[1]].Event[p[2]].Metadata.matches[p[3]].Filter)}

\* Position p comes before position q in the input.
Before(p, q) ==
    \E k \in 1 .. 4 : p[k] < q[k] /\ \A j \in 1 .. (k - 1) : p[j] = q[j]

\* C20: the batch FromSecurityEvents returns holds, in input order, exactly
\* one attack event per (match, filter) pair of every attack whose metadata
\* parses, built from that match, that filter, that attack's time and that
\* security event's context; an attack whose metadata does not parse
\* contributes nothing and ends nothing.
C20_OneEventPerMatchAndFilter ==
    batch # NoBatch
        => LET ev == batch[1].Events
               pos(i) == ev[i].RuleMatch.Operator
           IN  /\ {pos(i) : i \in 1 .. Len(ev)} = ParsedPairs
               /\ \A i, j \in 1 .. Len(ev) : i < j => Before(pos(i), pos(j))
               /\ \A i \in 1 .. Len(ev) :
                     /\ ev[i].Rule.ID = <<pos(i)[1], pos(i)[2], pos(i)[3]>>
                     /\ ev[i].DetectedAt = <<pos(i)[1], pos(i)[2]>>
                     /\ ev[i].Context.local = <<pos(i)[1]>>

\* C20 witness: a batch returned for an input whose first security event
\* has an attack that does not parse followed by one that does, and whose
\* second security event has an attack with two matches of two filters.
C20_Witness ==
    /\ batch # NoBatch
    /\ Len(securityEvents) = 2
    /\ Len(securityEvents[1].Event) = 2
    /\ ~securityEvents[1].Event[1].Metadata.ok
    /\ securityEvents[1].Event[1].Metadata.matches # <<>>
    /\ securityEvents[1].Event[2].Metadata.ok
    /\ Len(securityEvents[2].Event) >= 1
    /\ securityEvents[2].Event[1].Metadata.ok
    /\ Len(securityEvents[2].Event[1].Metadata.matches) = 2
    /\ Len(batch[1].Events) >= 5

====
